---------------------------- MODULE Spec2Model ----------------------------
(***************************************************************************)
(* A model of the decision engine of src/decisionengine/algorithms.py:     *)
(* the policies BanditEpsilonAlgorithm, BanditOptimisticAlgorithm,         *)
(* QLearningAlgorithm, TableauAlgorithm, NeuralNetworkAlgorithm and        *)
(* RandomAlgorithm, and the ExperienceReplay buffer.                       *)
(*                                                                         *)
(* A Python object is modelled as a record from attribute names to values: *)
(* an attribute that was never assigned is absent from the record's        *)
(* domain, and reading it raises AttributeError.  A call that raises       *)
(* leaves the assignments made before the raise in place.                  *)
(*                                                                         *)
(* Numbers are exact rationals <<numerator, denominator>> in lowest terms  *)
(* (Python's floats without their rounding); random draws are              *)
(* nondeterministic choices over the values the draw can produce.          *)
(***************************************************************************)
EXTENDS Integers, Sequences, FiniteSets, TLC

VARIABLES
    arch,       \* the architecture handed to the constructor
    kind,       \* the class of the object under test
    ctor,       \* the parameter vector the constructor was called with
    self,       \* the object's attributes
    built,      \* FALSE when the constructor raised: no object exists
    lastOp,     \* the latest call: "init", "propose", "feedback", "reset", ...
    arg,        \* the argument of the latest call, "none" if it takes none
    err,        \* the exception the latest call raised, "none" if it returned
    ret,        \* the value the latest call returned
    proposed,   \* get_action was called on this instance at least once
    fed,        \* result calls since construction or the latest reset
    fedEver,    \* some result call returned normally on this instance
    batch_idx,  \* the buffer positions the latest get_batch drew
    log         \* what the calls since construction or the latest reset
                \* offered, were attributed to and stored

vars == <<arch, kind, ctor, self, built, lastOp, arg, err, ret, proposed,
          fed, fedEver, batch_idx, log>>

---------------------------------------------------------------------------
(* Bounds of the model. *)

\* result calls explored per instance between two resets
MaxFeedback == 2
\* the longest buffer a stand-alone ExperienceReplay is grown to
MaxRemember == 4
\* the largest batch_size asked of a stand-alone ExperienceReplay
MaxBatch == 3

\* the operation lists architectures supply: none, excluded names only,
\* one or two eligible operations, excluded names mixed in before and after
OperationLists ==
    { <<>>, <<"a1">>, <<"a2", "a1">>, <<"op1">>,
      <<"op1", "op2">>,
      <<"a1", "op1">>, <<"op2", "a2">> }
\* the outcomes fed back by the caller
Outcomes == {0, 10}

---------------------------------------------------------------------------
(* Rational arithmetic. *)

Abs(n) == IF n < 0 THEN -n ELSE n

RECURSIVE GCD(_, _)
GCD(a, b) == IF b = 0 THEN a ELSE GCD(b, a % b)

Rat(n, d) ==
    LET g == GCD(Abs(n), d) IN <<n \div g, d \div g>>

RInt(n) == <<n, 1>>
RAdd(x, y) == Rat(x[1] * y[2] + y[1] * x[2], x[2] * y[2])
RSub(x, y) == Rat(x[1] * y[2] - y[1] * x[2], x[2] * y[2])
RMul(x, y) == Rat(x[1] * y[1], x[2] * y[2])
RLt(x, y) == x[1] * y[2] < y[1] * x[2]
RLe(x, y) == x[1] * y[2] <= y[1] * x[2]

\* the largest value of a non-empty set of rationals
RMax(S) == CHOOSE m \in S : \A x \in S : RLe(x, m)
\* abs(x)
RAbs(x) == <<Abs(x[1]), x[2]>>

---------------------------------------------------------------------------
(* The architecture: get_operations() is a list of operations with unique  *)
(* names, get_incoming_dependencies(op) the operations on op's incoming    *)
(* dependency edges (also taken as op.dependencies); circuitbreaker tells  *)
(* whether op.circuitbreaker is set, instances is op.service.instances.    *)

Range(l) == {l[i] : i \in DOMAIN l}

Architectures ==
    UNION {
        {[operations |-> ops, incoming |-> inc,
          circuitbreaker |-> [o \in Range(ops) |-> o = "op2"],
          instances |-> [o \in Range(ops) |-> IF o = "op1" THEN 2 ELSE 1]] :
            inc \in {f \in [Range(ops) -> SUBSET Range(ops)] :
                        \A o \in Range(ops) : o \notin f[o]}} :
        ops \in OperationLists}

get_operations(a) == a.operations

get_incoming_dependencies(a, name) == a.incoming[name]

---------------------------------------------------------------------------
(* BaseAlgorithm *)

Excluded == {"a1", "a2"}

fault_types == <<"abort", "delay">>

\* the fault injections of one operation: none for an excluded name
OperationFaults(name) ==
    IF name \in Excluded THEN <<>>
    ELSE [i \in DOMAIN fault_types |-> name \o "-" \o fault_types[i]]

RECURSIVE FaultInjections(_)
FaultInjections(ops) ==
    IF ops = <<>> THEN <<>>
    ELSE OperationFaults(Head(ops)) \o FaultInjections(Tail(ops))

BaseAlgorithm_init(a, p) ==
    [params |-> p, arch |-> a,
     fault_injections |-> FaultInjections(get_operations(a))]

\* an assignment that leaves an attribute the object already has as it is
Reassign_keep(old, new) ==
    [k \in DOMAIN old \cup DOMAIN new |->
        IF k \in DOMAIN old THEN old[k] ELSE new[k]]

\* self.__init__(...) on an existing object: the attributes the constructor
\* assigns are overwritten, every other attribute stays
Reassign(old, new) ==
    [k \in DOMAIN old \cup DOMAIN new |->
        IF k \in DOMAIN new THEN new[k] ELSE old[k]]

\* the first key, in insertion order, whose value is maximal:
\* max(d.items(), key=operator.itemgetter(1))[0]
MaxFirst(keys, d) ==
    LET m == RMax({d[keys[i]] : i \in DOMAIN keys})
        i0 == CHOOSE i \in DOMAIN keys :
                /\ d[keys[i]] = m
                /\ \A j \in DOMAIN keys : d[keys[j]] = m => i <= j
    IN  keys[i0]

\* the running mean with 1/n taken as an integer division
RunningMean_intdiv(prev_q, n, result) ==
    RAdd(prev_q, RMul(RInt(1 \div n), RSub(RInt(result), prev_q)))

\* prev_q + (1/n) * (result - prev_q)
RunningMean(prev_q, n, result) ==
    RAdd(prev_q, RMul(Rat(1, n), RSub(RInt(result), prev_q)))

\* the decay without its parentheses:
\* epsilon - min_epsilon * gamma + min_epsilon
Decay_noparens(epsilon, gamma, min_epsilon) ==
    RAdd(RSub(epsilon, RMul(min_epsilon, gamma)), min_epsilon)

\* (epsilon - min_epsilon) * gamma + min_epsilon
Decay(epsilon, gamma, min_epsilon) ==
    RAdd(RMul(RSub(epsilon, min_epsilon), gamma), min_epsilon)

\* the entry the hidden fields of object s name: the one the next result
\* call reads and writes
Pending(k, s) ==
    CASE k \in {"BanditEpsilonAlgorithm", "BanditOptimisticAlgorithm"} ->
            s.last_action
      [] k = "TableauAlgorithm" -> <<s.last_state, s.last_action>>
      [] k = "QLearningAlgorithm" -> <<s.state, s.next_state>>
      [] k = "NeuralNetworkAlgorithm" -> s.last_state
      [] OTHER -> "none"

\* the last n elements of a sequence
LastN(q, n) == IF Len(q) <= n THEN q ELSE SubSeq(q, Len(q) - n + 1, Len(q))

\* the record of the calls before any call was made on object s:
\*   run        the get_action calls that returned since the latest result
\*              or reset: "none", "one", or two and more of which the last
\*              two left the "same" entry pending or "different" ones
\*   followed   after a result call, the run it ended
\*   attributed the result calls that returned normally, per entry
\*   outs       the outcomes of those calls, per state, oldest first
\*   init       the feature lists as constructed
\*   snapshots  per experience stored, the feature list of its state as it
\*              was when the result call began
LogInit(k, ok, s) ==
    [run |-> "none", followed |-> "none", attributed |-> <<>>, outs |-> <<>>,
     init |-> IF ok /\ k = "NeuralNetworkAlgorithm" THEN s.states ELSE <<>>,
     snapshots |-> <<>>]

\* the record of the calls after call op(a) took the object from self to
\* newSelf, raising e or returning r
LogAfter(op, a, newSelf, e, r) ==
    LET tabular == kind \in {"BanditEpsilonAlgorithm",
                             "BanditOptimisticAlgorithm",
                             "TableauAlgorithm", "QLearningAlgorithm"}
        neural == kind = "NeuralNetworkAlgorithm"
    IN  IF op = "reset"
        THEN IF e = "none" THEN LogInit(kind, TRUE, newSelf) ELSE log
        ELSE IF op = "propose"
        THEN IF e = "none" /\ r # "None" /\ (tabular \/ neural)
             THEN [log EXCEPT
                    !.run = IF @ = "none" THEN "one"
                            ELSE IF Pending(kind, newSelf) = Pending(kind, self)
                            THEN "same" ELSE "different",
                    !.followed = "none"]
             ELSE [log EXCEPT !.followed = "none"]
        ELSE IF e # "none"
        THEN [log EXCEPT !.run = "none", !.followed = log.run]
        ELSE IF tabular
        THEN LET x == Pending(kind, self)
                 was == log.attributed
             IN  [log EXCEPT
                    !.run = "none", !.followed = log.run,
                    !.attributed =
                        [y \in DOMAIN was \cup {x} |->
                            IF y # x THEN was[y]
                            ELSE IF x \in DOMAIN was THEN was[x] + 1
                            ELSE 1]]
        ELSE IF neural /\ self.train_mode
        THEN LET x == self.last_state
                 was == log.outs
             IN  [log EXCEPT
                    !.run = "none", !.followed = log.run,
                    !.outs =
                        [y \in DOMAIN was \cup {x} |->
                            IF y # x THEN was[y]
                            ELSE IF x \in DOMAIN was THEN Append(was[x], a)
                            ELSE <<a>>],
                    !.snapshots =
                        LastN(Append(@, self.states[x]),
                              Len(newSelf.experience.memory))]
        ELSE [log EXCEPT !.run = "none", !.followed = log.run]

\* what a call leaves behind
Call(op, a, newSelf, e, r) ==
    /\ log' = LogAfter(op, a, newSelf, e, r)
    /\ self' = newSelf
    /\ lastOp' = op
    /\ arg' = a
    /\ err' = e
    /\ ret' = r
    /\ proposed' = (proposed \/ op = "propose")
    /\ fed' = IF op = "reset" /\ e = "none" THEN 0
              ELSE IF op = "feedback" THEN fed + 1 ELSE fed
    /\ fedEver' = (fedEver \/ (op = "feedback" /\ e = "none"))
    /\ UNCHANGED <<arch, kind, ctor, built, batch_idx>>

---------------------------------------------------------------------------
(* BanditEpsilonAlgorithm *)

\* params = [epsilon, gamma, min_epsilon]
BanditEpsilonParams ==
    { <<Rat(1, 1), Rat(1, 2), Rat(1, 4)>>,
      <<Rat(1, 2), Rat(1, 2), Rat(0, 1)>>,
      <<Rat(0, 1), Rat(1, 2), Rat(1, 2)>> }

BanditEpsilonAlgorithm_init(a, p) ==
    LET base == BaseAlgorithm_init(a, p)
        fi == base.fault_injections
    IN  Reassign(base,
            [epsilon |-> p[1], gamma |-> p[2], min_epsilon |-> p[3],
             original_epsilon |-> p[1],
             name |-> "bandit-epsilon",
             Q |-> [x \in Range(fi) |-> RInt(0)],
             N |-> [x \in Range(fi) |-> 1]])

BanditEpsilonAlgorithm_get_action ==
    /\ built /\ kind = "BanditEpsilonAlgorithm"
    /\ \/ \* random.random() < self.epsilon: the draw lies in [0, 1)
          /\ RLt(RInt(0), self.epsilon)
          /\ IF DOMAIN self.Q = {}
             THEN Call("propose", "none", self, "IndexError", "none")
             ELSE \E action \in DOMAIN self.Q :
                    Call("propose", "none",
                         Reassign(self, [last_action |-> action]),
                         "none", action)
       \/ /\ RLt(self.epsilon, RInt(1))
          /\ IF DOMAIN self.Q = {}
             THEN Call("propose", "none", self, "ValueError", "none")
             ELSE LET action == MaxFirst(self.fault_injections, self.Q)
                  IN  Call("propose", "none",
                           Reassign(self, [last_action |-> action]),
                           "none", action)

\* a reset that re-reads the current exploration rate
BanditEpsilonResetParams_decayed(s) ==
    <<s.epsilon, s.gamma, s.min_epsilon>>

\* the parameter vector reset hands to the constructor
BanditEpsilonResetParams(s) ==
    <<s.original_epsilon, s.gamma, s.min_epsilon>>

\* the call result(result)
BanditEpsilonAlgorithm_result_(result) ==
    IF "last_action" \notin DOMAIN self
    THEN Call("feedback", result, self, "AttributeError", "none")
    ELSE LET action == self.last_action
             n == self.N[action] + 1
             prev_q == self.Q[action]
         IN  Call("feedback", result,
                  [self EXCEPT
                     !.N[action] = n,
                     !.Q[action] = RunningMean(prev_q, n, result),
                     !.epsilon = Decay(self.epsilon, self.gamma,
                                       self.min_epsilon)],
                  "none", "none")

BanditEpsilonAlgorithm_result ==
    /\ built /\ kind = "BanditEpsilonAlgorithm"
    /\ fed < MaxFeedback
    /\ \E result \in Outcomes : BanditEpsilonAlgorithm_result_(result)

BanditEpsilonAlgorithm_reset ==
    /\ built /\ kind = "BanditEpsilonAlgorithm"
    /\ Call("reset", "none",
            Reassign(self, BanditEpsilonAlgorithm_init(
                               self.arch, BanditEpsilonResetParams(self))),
            "none", "none")

---------------------------------------------------------------------------
(* BanditOptimisticAlgorithm *)

\* params = [optimistic]
BanditOptimisticParams == { <<RInt(5)>> }

BanditOptimisticAlgorithm_init(a, p) ==
    LET base == BaseAlgorithm_init(a, p)
        fi == base.fault_injections
    IN  Reassign(base,
            [optimistic |-> p[1],
             name |-> "bandit-optimistic",
             Q |-> [x \in Range(fi) |-> p[1]],
             N |-> [x \in Range(fi) |-> 1]])

\* a greedy choice that ranks the actions by visit count
BanditOptimisticChoice_byN(s) ==
    MaxFirst(s.fault_injections, [x \in DOMAIN s.N |-> RInt(s.N[x])])

\* the action get_action picks from a non-empty Q
BanditOptimisticChoice(s) == MaxFirst(s.fault_injections, s.Q)

BanditOptimisticAlgorithm_get_action ==
    /\ built /\ kind = "BanditOptimisticAlgorithm"
    /\ IF DOMAIN self.Q = {}
       THEN Call("propose", "none", self, "ValueError", "none")
       ELSE LET action == BanditOptimisticChoice(self)
            IN  Call("propose", "none",
                     Reassign(self, [last_action |-> action]),
                     "none", action)

\* the call result(result)
BanditOptimisticAlgorithm_result_(result) ==
    IF "last_action" \notin DOMAIN self
    THEN Call("feedback", result, self, "AttributeError", "none")
    ELSE LET action == self.last_action
             prev_q == self.Q[action]
             n == self.N[action] + 1
         IN  Call("feedback", result,
                  [self EXCEPT
                     !.N[action] = n,
                     !.Q[action] = RunningMean(prev_q, n, result)],
                  "none", "none")

BanditOptimisticAlgorithm_result ==
    /\ built /\ kind = "BanditOptimisticAlgorithm"
    /\ fed < MaxFeedback
    /\ \E result \in Outcomes : BanditOptimisticAlgorithm_result_(result)

BanditOptimisticAlgorithm_reset ==
    /\ built /\ kind = "BanditOptimisticAlgorithm"
    /\ Call("reset", "none",
            Reassign(self, BanditOptimisticAlgorithm_init(
                               self.arch, <<self.optimistic>>)),
            "none", "none")

---------------------------------------------------------------------------
(* RandomAlgorithm *)

RandomParams == { <<>> }

RandomAlgorithm_init(a, p) ==
    Reassign(BaseAlgorithm_init(a, p), [name |-> "random"])

RandomAlgorithm_get_action ==
    /\ built /\ kind = "RandomAlgorithm"
    /\ IF self.fault_injections = <<>>
       THEN Call("propose", "none", self, "IndexError", "none")
       ELSE \E action \in Range(self.fault_injections) :
                Call("propose", "none", self, "none", action)

\* BaseAlgorithm.result: pass
RandomAlgorithm_result ==
    /\ built /\ kind = "RandomAlgorithm"
    /\ fed < MaxFeedback
    /\ \E result \in Outcomes :
        Call("feedback", result, self, "none", "none")

\* BaseAlgorithm.reset
RandomAlgorithm_reset ==
    /\ built /\ kind = "RandomAlgorithm"
    /\ Call("reset", "none",
            Reassign(self, RandomAlgorithm_init(self.arch, self.params)),
            "none", "none")

---------------------------------------------------------------------------
(* QLearningAlgorithm *)

\* params = [epsilon, gamma, learning_rate, initial_q]
QLearningParams == { <<Rat(1, 2), Rat(1, 2), Rat(1, 2), RInt(0)>> }

\* states whose visit counts start at 1, as the bandits' do
QLearningStates_N1(a, initial_q) ==
    [o \in {x \in Range(get_operations(a)) :
                get_incoming_dependencies(a, x) # {}} |->
        [Q |-> [d \in get_incoming_dependencies(a, o) |-> initial_q],
         N |-> [d \in get_incoming_dependencies(a, o) |-> 1]]]

\* self.states: one entry per operation with an incoming dependency, keyed
\* by the operation's name, its Q and N keyed by the dependencies' names
QLearningStates(a, initial_q) ==
    [o \in {x \in Range(get_operations(a)) :
                get_incoming_dependencies(a, x) # {}} |->
        [Q |-> [d \in get_incoming_dependencies(a, o) |-> initial_q],
         N |-> [d \in get_incoming_dependencies(a, o) |-> 0]]]

\* the attributes __init__ assigns before it draws self.state
QLearningAlgorithm_fields(a, p) ==
    Reassign(BaseAlgorithm_init(a, p),
        [epsilon |-> p[1], gamma |-> p[2], learning_rate |-> p[3],
         initial_q |-> p[4],
         name |-> "qlearning",
         states |-> QLearningStates(a, p[4])])

\* the objects __init__ can leave: one per draw of self.state; none when
\* self.states is empty and random.choice raises IndexError
QLearningAlgorithm_init(a, p) ==
    LET f == QLearningAlgorithm_fields(a, p)
    IN  {Reassign(f, [state |-> st]) : st \in DOMAIN f.states}

\* random_argmax over a dict: any key whose value is maximal
DictArgmax(vector) ==
    {k \in DOMAIN vector :
        vector[k] = RMax({vector[j] : j \in DOMAIN vector})}

\* a get_action that picks among the state names
QLearningChoices_states(s) == DOMAIN s.states

\* the dependency names get_action can pick in the state it is in
QLearningChoices(s) ==
    LET q == s.states[s.state].Q
    IN  (IF RLt(s.epsilon, RInt(1)) THEN DictArgmax(q) ELSE {})
        \cup (IF RLt(RInt(0), s.epsilon) THEN DOMAIN q ELSE {})

\* a get_action that also moves to the state it picked
QLearningAlgorithm_get_action_moves ==
    /\ built /\ kind = "QLearningAlgorithm"
    /\ \E action \in QLearningChoices(self) :
       \E i \in DOMAIN fault_types :
            Call("propose", "none",
                 Reassign(self, [next_state |-> action, state |-> action]),
                 "none", action \o "-" \o fault_types[i])

QLearningAlgorithm_get_action ==
    /\ built /\ kind = "QLearningAlgorithm"
    /\ \E action \in QLearningChoices(self) :
       \E i \in DOMAIN fault_types :
            Call("propose", "none",
                 Reassign(self, [next_state |-> action]),
                 "none", action \o "-" \o fault_types[i])

\* (1-learning_rate)*prev_q + learning_rate*(result + gamma*best)
TDUpdate(prev_q, learning_rate, gamma, result, best) ==
    RAdd(RMul(RSub(RInt(1), learning_rate), prev_q),
         RMul(learning_rate, RAdd(RInt(result), RMul(gamma, best))))

\* a result that always draws the state it moves to
QLearningNextActual_any(s) == DOMAIN s.states

\* the states result can move to
QLearningNextActual(s) ==
    IF s.next_state \notin DOMAIN s.states
    THEN DOMAIN s.states
    ELSE {s.next_state}

QLearningAlgorithm_result ==
    /\ built /\ kind = "QLearningAlgorithm"
    /\ fed < MaxFeedback
    /\ \E result \in Outcomes :
        IF "next_state" \notin DOMAIN self
        THEN Call("feedback", result, self, "AttributeError", "none")
        ELSE \E next_state_actual \in QLearningNextActual(self) :
            IF self.next_state \notin DOMAIN self.states[self.state].Q
            THEN Call("feedback", result, self, "KeyError", "none")
            ELSE LET st == self.state
                     nx == self.next_state
                     prev_q == self.states[st].Q[nx]
                     nextQ == self.states[next_state_actual].Q
                     best == RMax({nextQ[k] : k \in DOMAIN nextQ})
                 IN  Call("feedback", result,
                          [self EXCEPT
                             !.states[st].N[nx] = @ + 1,
                             !.states[st].Q[nx] =
                                 TDUpdate(prev_q, self.learning_rate,
                                          self.gamma, result, best),
                             !.state = next_state_actual],
                          "none", "none")

QLearningAlgorithm_reset ==
    /\ built /\ kind = "QLearningAlgorithm"
    /\ \E fresh \in QLearningAlgorithm_init(self.arch,
                        <<self.epsilon, self.gamma, self.learning_rate,
                          self.initial_q>>) :
            Call("reset", "none", Reassign(self, fresh), "none", "none")

---------------------------------------------------------------------------
(* TableauAlgorithm *)

\* params = [epsilon, gamma, initial_q, min_epsilon, action_size]
TableauParams ==
    { <<Rat(1, 2), Rat(1, 2), RInt(5), Rat(1, 4), 2>>,
      <<Rat(0, 1), Rat(1, 2), RInt(0), Rat(1, 2), 1>> }

\* range(action_size)
Buckets(action_size) == 0 .. (action_size - 1)

\* the keys of self.states: name-fault for every operation not excluded
RECURSIVE FaultStates(_)
FaultStates(ops) ==
    IF ops = <<>> THEN {}
    ELSE (IF Head(ops) \notin Excluded
          THEN {Head(ops) \o "-" \o f : f \in {"abort", "delay"}}
          ELSE {})
         \cup FaultStates(Tail(ops))

TableauAlgorithm_init(a, p) ==
    Reassign(BaseAlgorithm_init(a, p),
        [name |-> "tableau",
         epsilon |-> p[1], gamma |-> p[2], initial_q |-> p[3],
         min_epsilon |-> p[4], action_size |-> p[5],
         states |-> [st \in FaultStates(get_operations(a)) |->
                        [Q |-> [i \in Buckets(p[5]) |-> p[3]],
                         N |-> [i \in Buckets(p[5]) |-> 1]]]])

\* random_argmax over a list: any index whose value is maximal
ListArgmax(vector) ==
    {i \in DOMAIN vector :
        vector[i] = RMax({vector[j] : j \in DOMAIN vector})}

\* the last bucket, in index order, whose queue is not empty
FirstNonEmpty_last(queues) ==
    CHOOSE i \in DOMAIN queues :
        /\ queues[i] # {}
        /\ \A j \in DOMAIN queues : queues[j] # {} => i >= j

\* the first bucket, in index order, whose queue is not empty
FirstNonEmpty(queues) ==
    CHOOSE i \in DOMAIN queues :
        /\ queues[i] # {}
        /\ \A j \in DOMAIN queues : queues[j] # {} => i <= j

\* the (state, bucket) pairs the greedy branch can return: every state
\* is queued at one of its maximal buckets, and a state of the first
\* queue that is not empty is drawn
TableauGreedy(s) ==
    UNION {
        LET queues == [i \in Buckets(s.action_size) |->
                          {st \in DOMAIN s.states : choice[st] = i}]
            first == FirstNonEmpty(queues)
        IN  {<<st, first>> : st \in queues[first]} :
        choice \in {c \in [DOMAIN s.states -> Buckets(s.action_size)] :
                      \A st \in DOMAIN s.states :
                          c[st] \in ListArgmax(s.states[st].Q)}}

TableauAlgorithm_get_action ==
    /\ built /\ kind = "TableauAlgorithm"
    /\ \/ \* np.random.rand() >= self.epsilon
          /\ RLt(self.epsilon, RInt(1))
          /\ IF DOMAIN self.states = {}
             THEN \* both loops fall through: the call returns None
                  Call("propose", "none", self, "none", "None")
             ELSE \E pick \in TableauGreedy(self) :
                    Call("propose", "none",
                         Reassign(self, [last_state |-> pick[1],
                                         last_action |-> pick[2]]),
                         "none", pick[1])
       \/ /\ RLt(RInt(0), self.epsilon)
          /\ \E i \in Buckets(self.action_size) :
               IF DOMAIN self.states = {}
               THEN Call("propose", "none", Reassign(self, [last_action |-> i]),
                         "IndexError", "none")
               ELSE \E st \in DOMAIN self.states :
                      Call("propose", "none",
                           Reassign(self, [last_action |-> i,
                                           last_state |-> st]),
                           "none", st)

\* an update in which the states share one N list
TableauUpdate_sharedN(s, result) ==
    LET st == s.last_state
        b == s.last_action
        n == s.states[st].N[b] + 1
        prev_q == s.states[st].Q[b]
    IN  [s EXCEPT
            !.states = [x \in DOMAIN s.states |->
                IF x = st
                THEN [Q |-> [s.states[x].Q EXCEPT
                                ![b] = RunningMean(prev_q, n, result)],
                      N |-> [s.states[x].N EXCEPT ![b] = n]]
                ELSE [s.states[x] EXCEPT !.N[b] = n]],
            !.epsilon = Decay(s.epsilon, s.gamma, s.min_epsilon)]

\* the object result leaves when last_state and last_action are set
TableauUpdate(s, result) ==
    LET st == s.last_state
        b == s.last_action
        n == s.states[st].N[b] + 1
        prev_q == s.states[st].Q[b]
    IN  [s EXCEPT
            !.states[st].N[b] = n,
            !.states[st].Q[b] = RunningMean(prev_q, n, result),
            !.epsilon = Decay(s.epsilon, s.gamma, s.min_epsilon)]

TableauAlgorithm_result ==
    /\ built /\ kind = "TableauAlgorithm"
    /\ fed < MaxFeedback
    /\ \E result \in Outcomes :
        IF "last_state" \notin DOMAIN self
        THEN Call("feedback", result, self, "AttributeError", "none")
        ELSE Call("feedback", result, TableauUpdate(self, result),
                  "none", "none")

\* the parameter vector reset hands to the constructor
TableauResetParams(s) == s.params

TableauAlgorithm_reset ==
    /\ built /\ kind = "TableauAlgorithm"
    /\ Call("reset", "none",
            Reassign(self, TableauAlgorithm_init(self.arch,
                                                 TableauResetParams(self))),
            "none", "none")

---------------------------------------------------------------------------
(* ExperienceReplay *)

ExperienceReplay_init(max_memory) ==
    [memory |-> <<>>, max_memory |-> max_memory, discount |-> Rat(9, 10)]

ExperienceReplay_remember_(er, experience) ==
    [er EXCEPT !.memory = Append(@, experience)]

\* del self.memory[:len(self.memory) - self.max_memory]
DropOldest(memory, max_memory) ==
    IF Len(memory) > max_memory
    THEN SubSeq(memory, Len(memory) - max_memory + 1, Len(memory))
    ELSE memory

\* a draw with replacement
ChoiceWithoutReplacement_replace(n, batch_size) ==
    [1 .. batch_size -> 0 .. (n - 1)]

\* np.random.choice(range(n), replace=False, size=batch_size, p=p) with
\* every p positive: batch_size positions of 0..n-1, no position twice
ChoiceWithoutReplacement(n, batch_size) ==
    {idx \in [1 .. batch_size -> 0 .. (n - 1)] :
        \A i, j \in 1 .. batch_size : i # j => idx[i] # idx[j]}

\* the positions get_batch can draw from a buffer of n entries; when the
\* whole buffer is returned, every position in order
BatchPositions(n, batch_size) ==
    IF batch_size < n
    THEN ChoiceWithoutReplacement(n, batch_size)
    ELSE {[i \in 1 .. n |-> i - 1]}

\* the outcomes of er.get_batch(batch_size): the buffer it leaves, the
\* positions it drew and the batch it returns
ExperienceReplay_get_batch_(er, batch_size) ==
    LET memory == DropOldest(er.memory, er.max_memory)
    IN  {[er |-> [er EXCEPT !.memory = memory],
          idx |-> idx,
          batch |-> [i \in DOMAIN idx |-> memory[idx[i] + 1]]] :
            idx \in BatchPositions(Len(memory), batch_size)}

---------------------------------------------------------------------------
(* NeuralNetworkAlgorithm *)

\* params = [hidden_size]
NeuralNetworkParams == { <<10>> }

experience_length == 10000
experience_batch_size == 1000

\* the four random.choice([0,1]) draws of extract_features that the
\* model explores; one construction draws the same four for every state
HistoryDraws == { <<0, 0, 0, 0>>, <<1, 0, 1, 1>> }

\* the operation and fault of a state key
StateKeys(ops) ==
    {[key |-> ops[i] \o "-" \o f, operation |-> ops[i], fault |-> f] :
        i \in {j \in DOMAIN ops : ops[j] \notin Excluded},
        f \in {"abort", "delay"}}

\* extract_features(operation, fault) with the history it drew; the list
\* is indexed from 0 as in the code
extract_features(a, operation, fault, history) ==
    [i \in 0 .. 7 |->
        CASE i = 0 -> IF a.circuitbreaker[operation] THEN 1 ELSE 0
          [] i = 1 -> Cardinality(a.incoming[operation])
          [] i = 2 -> a.instances[operation]
          [] i \in 3 .. 6 -> history[i - 2]
          [] i = 7 -> IF fault = "abort" THEN 0 ELSE 1]

\* init_model: a new, unfitted classifier
init_model(s, warm_start) ==
    Reassign(s, [model |-> [warm_start |-> warm_start],
                 model_fit |-> FALSE])

\* the objects __init__ can leave: one per draw of the states' histories
NeuralNetworkAlgorithm_init(a, p) ==
    LET sk == StateKeys(get_operations(a))
        keys == {k.key : k \in sk}
        of(key) == CHOOSE k \in sk : k.key = key
        head == Reassign(BaseAlgorithm_init(a, p),
                    [name |-> "neuralnetwork",
                     train_mode |-> TRUE,
                     experience_length |-> experience_length,
                     experience_batch_size |-> experience_batch_size,
                     experience |-> ExperienceReplay_init(experience_length),
                     episode_history |-> <<>>,
                     iteration_counter |-> 0,
                     hidden_size |-> p[1]])
    IN  {Reassign(init_model(head, TRUE),
            [states |-> [key \in keys |->
                extract_features(a, of(key).operation, of(key).fault,
                                 h)]]) :
            h \in HistoryDraws}

NeuralNetworkAlgorithm_get_action ==
    /\ built /\ kind = "NeuralNetworkAlgorithm"
    /\ IF DOMAIN self.states = {}
       THEN \* random.choices([], weights=[], k=1)
            Call("propose", "none", self, "IndexError", "none")
       ELSE \/ \* some probability is positive: any state of positive
               \* weight can be drawn
               \E st \in DOMAIN self.states :
                    Call("propose", "none", Reassign(self, [last_state |-> st]),
                         "none", st)
            \/ \* every probability is 0: total_prob is 0
               IF self.model_fit
               THEN Call("propose", "none", self, "ValueError", "none")
               ELSE Call("propose", "none", self, "ZeroDivisionError", "none")

\* the four assignments made from the newest slot to the oldest: every
\* slot ends up holding result
ShiftHistory_ascending(features, result) ==
    [features EXCEPT ![3] = result, ![4] = result, ![5] = result,
                     ![6] = result]

\* the lagged outcomes of a feature list shifted down by one, result first
ShiftHistory(features, result) ==
    [features EXCEPT ![6] = features[5], ![5] = features[4],
                     ![4] = features[3], ![3] = result]

\* learn_from_experience: the objects it can leave; partial_fit either
\* accepts the batch or raises the ValueError that is caught
learn_from_experience(s) ==
    LET got == ExperienceReplay_get_batch_(s.experience,
                                           s.experience_batch_size)
    IN  UNION {
            LET t == [s EXCEPT !.experience = g.er]
            IN  IF t.model_fit
                THEN {t, [init_model(t, FALSE) EXCEPT !.model_fit = TRUE]}
                ELSE {[t EXCEPT !.model_fit = TRUE]} :
            g \in got}

\* the call result(result)
NeuralNetworkAlgorithm_result_(result) ==
    IF ~self.train_mode
    THEN Call("feedback", result, self, "none", "none")
    ELSE LET counted == [self EXCEPT !.iteration_counter = @ + 1]
         IN  IF "last_state" \notin DOMAIN self
             THEN Call("feedback", result, counted, "AttributeError", "none")
             ELSE LET st == self.last_state
                      \* the tuple holds the state's feature list itself,
                      \* not a copy: ref names the list it holds
                      kept == [counted EXCEPT
                                 !.experience =
                                    ExperienceReplay_remember_(@,
                                        [ref |-> st, y |-> result]),
                                 !.states[st] = ShiftHistory(@, result)]
                  IN  IF \/ kept.iteration_counter = 1
                         \/ kept.iteration_counter % 5 = 0
                      THEN \E learnt \in learn_from_experience(kept) :
                             Call("feedback", result, learnt, "none", "none")
                      ELSE Call("feedback", result, kept, "none", "none")

NeuralNetworkAlgorithm_result ==
    /\ built /\ kind = "NeuralNetworkAlgorithm"
    /\ fed < MaxFeedback
    /\ \E result \in Outcomes : NeuralNetworkAlgorithm_result_(result)

NeuralNetworkAlgorithm_reset ==
    /\ built /\ kind = "NeuralNetworkAlgorithm"
    /\ \E fresh \in NeuralNetworkAlgorithm_init(self.arch, self.params) :
            Call("reset", "none", Reassign(self, fresh), "none", "none")

---------------------------------------------------------------------------
(* Construction *)

\* the outcomes of Class(arch, params): the object, or no object when the
\* constructor raises
Construct(k, a, p) ==
    CASE k = "BanditEpsilonAlgorithm" ->
            {[ok |-> TRUE, obj |-> BanditEpsilonAlgorithm_init(a, p)]}
      [] k = "BanditOptimisticAlgorithm" ->
            {[ok |-> TRUE, obj |-> BanditOptimisticAlgorithm_init(a, p)]}
      [] k = "RandomAlgorithm" ->
            {[ok |-> TRUE, obj |-> RandomAlgorithm_init(a, p)]}
      [] k = "QLearningAlgorithm" ->
            IF QLearningAlgorithm_init(a, p) = {}
            THEN {[ok |-> FALSE, obj |-> QLearningAlgorithm_fields(a, p)]}
            ELSE {[ok |-> TRUE, obj |-> o] :
                    o \in QLearningAlgorithm_init(a, p)}
      [] k = "TableauAlgorithm" ->
            {[ok |-> TRUE, obj |-> TableauAlgorithm_init(a, p)]}
      [] k = "NeuralNetworkAlgorithm" ->
            {[ok |-> TRUE, obj |-> o] :
                o \in NeuralNetworkAlgorithm_init(a, p)}

PolicyParams(k) ==
    CASE k = "BanditEpsilonAlgorithm" -> BanditEpsilonParams
      [] k = "BanditOptimisticAlgorithm" -> BanditOptimisticParams
      [] k = "RandomAlgorithm" -> RandomParams
      [] k = "QLearningAlgorithm" -> QLearningParams
      [] k = "TableauAlgorithm" -> TableauParams
      [] k = "NeuralNetworkAlgorithm" -> NeuralNetworkParams

Policies ==
    {"BanditEpsilonAlgorithm", "BanditOptimisticAlgorithm", "RandomAlgorithm",
     "QLearningAlgorithm", "TableauAlgorithm", "NeuralNetworkAlgorithm"}

\* the classes that call get_incoming_dependencies
ReadsDependencies == {"QLearningAlgorithm"}

Init ==
    /\ kind \in Policies
    /\ arch \in Architectures
    /\ kind \notin ReadsDependencies =>
            \A o \in DOMAIN arch.incoming : arch.incoming[o] = {}
    /\ ctor \in PolicyParams(kind)
    /\ \E c \in Construct(kind, arch, ctor) :
         /\ built = c.ok
         /\ self = c.obj
    /\ lastOp = "init"
    /\ arg = "none"
    /\ err = IF built THEN "none" ELSE "IndexError"
    /\ ret = "none"
    /\ proposed = FALSE
    /\ fed = 0
    /\ fedEver = FALSE
    /\ batch_idx = <<>>
    /\ log = LogInit(kind, built, self)

Next ==
    \/ BanditEpsilonAlgorithm_get_action
    \/ BanditEpsilonAlgorithm_result
    \/ BanditEpsilonAlgorithm_reset
    \/ BanditOptimisticAlgorithm_get_action
    \/ BanditOptimisticAlgorithm_result
    \/ BanditOptimisticAlgorithm_reset
    \/ RandomAlgorithm_get_action
    \/ RandomAlgorithm_result
    \/ RandomAlgorithm_reset
    \/ QLearningAlgorithm_get_action
    \/ QLearningAlgorithm_result
    \/ QLearningAlgorithm_reset
    \/ TableauAlgorithm_get_action
    \/ TableauAlgorithm_result
    \/ TableauAlgorithm_reset
    \/ NeuralNetworkAlgorithm_get_action
    \/ NeuralNetworkAlgorithm_result
    \/ NeuralNetworkAlgorithm_reset

Spec == Init /\ [][Next]_vars

---------------------------------------------------------------------------
(* A stand-alone ExperienceReplay, driven through remember and get_batch *)

\* the max_memory values the buffer is constructed with
Capacities == {1, 2, 3}

\* the experiences the caller stores
Experiences == { <<"x", 0>>, <<"x", 10>> }

ExperienceReplay_remember ==
    /\ kind = "ExperienceReplay"
    /\ Len(self.memory) < MaxRemember
    /\ \E experience \in Experiences :
        /\ self' = ExperienceReplay_remember_(self, experience)
        /\ lastOp' = "remember"
        /\ arg' = experience
        /\ err' = "none"
        /\ ret' = "none"
        /\ UNCHANGED <<arch, kind, ctor, built, proposed, fed, fedEver,
                       batch_idx, log>>

ExperienceReplay_get_batch ==
    /\ kind = "ExperienceReplay"
    /\ \E batch_size \in 0 .. MaxBatch :
       \E got \in ExperienceReplay_get_batch_(self, batch_size) :
        /\ self' = got.er
        /\ lastOp' = "get_batch"
        /\ arg' = batch_size
        /\ err' = "none"
        /\ ret' = got.batch
        /\ batch_idx' = got.idx
        /\ UNCHANGED <<arch, kind, ctor, built, proposed, fed, fedEver, log>>

InitReplay ==
    /\ kind = "ExperienceReplay"
    /\ arch = "none"
    /\ ctor \in {<<c>> : c \in Capacities}
    /\ self = ExperienceReplay_init(ctor[1])
    /\ built = TRUE
    /\ lastOp = "init"
    /\ arg = "none"
    /\ err = "none"
    /\ ret = "none"
    /\ proposed = FALSE
    /\ fed = 0
    /\ fedEver = FALSE
    /\ batch_idx = <<>>
    /\ log = LogInit(kind, built, self)

NextReplay ==
    \/ ExperienceReplay_remember
    \/ ExperienceReplay_get_batch

SpecReplay == InitReplay /\ [][NextReplay]_vars

---------------------------------------------------------------------------
(* A bandit fed the same outcome for the same action, call after call *)

\* the result calls of one streak
MaxStreak == 6

\* a bandit with at least one action
InitStreak ==
    /\ Init
    /\ kind \in {"BanditEpsilonAlgorithm", "BanditOptimisticAlgorithm"}
    /\ built
    /\ DOMAIN self.Q # {}

\* get_action, until the streak begins
Streak_get_action ==
    /\ fed = 0
    /\ \/ BanditEpsilonAlgorithm_get_action
       \/ BanditOptimisticAlgorithm_get_action

\* result with the outcome of the call before, for the action of the call
\* before
Streak_result ==
    /\ built
    /\ "last_action" \in DOMAIN self
    /\ fed < MaxStreak
    /\ \E result \in Outcomes :
        /\ fed > 0 => result = arg
        /\ \/ /\ kind = "BanditEpsilonAlgorithm"
              /\ BanditEpsilonAlgorithm_result_(result)
           \/ /\ kind = "BanditOptimisticAlgorithm"
              /\ BanditOptimisticAlgorithm_result_(result)

NextStreak ==
    \/ Streak_get_action
    \/ Streak_result

SpecStreak == InitStreak /\ [][NextStreak]_vars

---------------------------------------------------------------------------
(* A NeuralNetworkAlgorithm over one operation, fed long enough for a      *)
(* lagged outcome to leave the feature list                                *)

\* the result calls per instance between two resets
MaxLag == 5

InitLag ==
    /\ Init
    /\ kind = "NeuralNetworkAlgorithm"
    /\ get_operations(arch) = <<"op1">>

Lag_result ==
    /\ built /\ kind = "NeuralNetworkAlgorithm"
    /\ fed < MaxLag
    /\ \E result \in Outcomes : NeuralNetworkAlgorithm_result_(result)

NextLag ==
    \/ NeuralNetworkAlgorithm_get_action
    \/ Lag_result
    \/ NeuralNetworkAlgorithm_reset

SpecLag == InitLag /\ [][NextLag]_vars

---------------------------------------------------------------------------
(* The claims. *)

Bandits == {"BanditEpsilonAlgorithm", "BanditOptimisticAlgorithm"}

\* the operations that are not excluded
EligibleOperations(a) == Range(a.operations) \ Excluded

\* the action universe: <operation-name>-abort and <operation-name>-delay
\* for every operation that is not excluded
ActionUniverse(a) ==
    {o \o "-" \o f : o \in EligibleOperations(a), f \in {"abort", "delay"}}

\* the ids an excluded operation name would give
ExcludedIds == {o \o "-" \o f : o \in Excluded, f \in {"abort", "delay"}}

\* C1: on an architecture with an eligible operation, what propose()
\* returns is a member of the action universe.
C1_ProposeInUniverse ==
    (/\ built /\ kind \in Policies
     /\ EligibleOperations(arch) # {}
     /\ lastOp = "propose" /\ err = "none")
    => ret \in ActionUniverse(arch)

\* the action ids and state keys an object holds
KeysOf(k, s) ==
    Range(s.fault_injections)
    \cup (IF k \in Bandits THEN DOMAIN s.Q \cup DOMAIN s.N ELSE {})
    \cup (IF k \in {"TableauAlgorithm", "NeuralNetworkAlgorithm"}
          THEN DOMAIN s.states ELSE {})
    \cup (IF k = "QLearningAlgorithm"
          THEN DOMAIN s.states
               \cup UNION {DOMAIN s.states[st].Q : st \in DOMAIN s.states}
               \cup UNION {DOMAIN s.states[st].N : st \in DOMAIN s.states}
          ELSE {})

\* C2: no excluded operation name is a state key or the operation part of
\* an action id, in any policy, in any reachable state.
C2_NoExcludedKeys ==
    (built /\ kind \in Policies)
    => KeysOf(kind, self) \cap (Excluded \cup ExcludedIds) = {}

\* C3: feedback() on an instance on which propose() was never called is
\* rejected with an error.
C3_FeedbackBeforeProposeRejected ==
    (kind \in Policies /\ lastOp = "feedback" /\ ~proposed)
    => err # "none"

\* C4: no policy object is produced on an architecture without eligible
\* operations.
C4_EmptyConstructionFails ==
    (kind \in Policies /\ EligibleOperations(arch) = {}) => ~built

\* the Q entries, N entries and exploration rate of an object
Estimates(k, s) ==
    IF k \in Bandits
    THEN [Q |-> s.Q, N |-> s.N,
          epsilon |-> IF k = "BanditEpsilonAlgorithm" THEN s.epsilon
                      ELSE "none"]
    ELSE [Q |-> [st \in DOMAIN s.states |-> s.states[st].Q],
          N |-> [st \in DOMAIN s.states |-> s.states[st].N],
          epsilon |-> s.epsilon]

Learners ==
    Bandits \cup {"QLearningAlgorithm", "TableauAlgorithm"}

\* C5: after reset(), every Q entry, every N entry and the exploration
\* rate are those of an instance freshly constructed with the original
\* parameters, and so is every other attribute the constructor assigns, so
\* that the calls that follow act as on a fresh instance.
C5_ResetRestores ==
    (built /\ kind \in Learners /\ lastOp = "reset")
    => \E c \in Construct(kind, arch, ctor) :
         /\ c.ok
         /\ Estimates(kind, self) = Estimates(kind, c.obj)
         /\ \A k \in DOMAIN c.obj : k \in DOMAIN self /\ self[k] = c.obj[k]

C5_Witness ==
    /\ built /\ kind = "BanditEpsilonAlgorithm" /\ lastOp = "reset"
    /\ fedEver
    /\ DOMAIN self.Q # {}
    /\ self.epsilon = ctor[1]
    /\ RLt(self.min_epsilon, self.epsilon)

\* the entries of the estimate tables: the actions (bandits), the
\* state and bucket pairs (Tableau)
Entries(k, s) ==
    IF k \in Bandits THEN DOMAIN s.Q
    ELSE {<<st, b>> : st \in DOMAIN s.states, b \in Buckets(s.action_size)}

EntryQ(k, s, e) == IF k \in Bandits THEN s.Q[e] ELSE s.states[e[1]].Q[e[2]]

EntryN(k, s, e) == IF k \in Bandits THEN s.N[e] ELSE s.states[e[1]].N[e[2]]

\* the entry the latest propose() recorded
Recorded(k, s) ==
    IF k \in Bandits THEN s.last_action ELSE <<s.last_state, s.last_action>>

FlatLearners == Bandits \cup {"TableauAlgorithm"}

\* C6: a feedback() that follows a propose() changes the Q and N of the
\* entry that propose() recorded (N always, Q unless the outcome equals the
\* estimate) and of no other entry.
C6_FeedbackFrame ==
    [][(/\ built /\ kind \in FlatLearners
        /\ lastOp = "propose" /\ err = "none" /\ ret # "None"
        /\ lastOp' = "feedback")
       => /\ err' = "none"
          /\ Entries(kind, self') = Entries(kind, self)
          /\ {e \in Entries(kind, self) :
                \/ EntryQ(kind, self', e) # EntryQ(kind, self, e)
                \/ EntryN(kind, self', e) # EntryN(kind, self, e)}
             = {Recorded(kind, self)}
          /\ EntryN(kind, self', Recorded(kind, self))
             = EntryN(kind, self, Recorded(kind, self)) + 1]_vars

C6_Witness ==
    /\ built /\ kind = "TableauAlgorithm"
    /\ lastOp = "feedback" /\ err = "none" /\ arg = 10
    /\ Cardinality(Entries(kind, self)) = 8
    /\ EntryN(kind, self, Recorded(kind, self)) = 2
    /\ EntryQ(kind, self, Recorded(kind, self)) = Rat(15, 2)
    /\ \A e \in Entries(kind, self) \ {Recorded(kind, self)} :
            EntryN(kind, self, e) = 1 /\ EntryQ(kind, self, e) = RInt(5)

\* C7: BanditOptimistic.propose() returns an action whose Q is maximal, so
\* the one action whose Q exceeds all others whenever there is one.
C7_GreedyMax ==
    (built /\ kind = "BanditOptimisticAlgorithm"
     /\ lastOp = "propose" /\ err = "none")
    => \A a \in DOMAIN self.Q : RLe(self.Q[a], self.Q[ret])

C7_Witness ==
    /\ built /\ kind = "BanditOptimisticAlgorithm"
    /\ lastOp = "propose" /\ err = "none"
    /\ Cardinality(DOMAIN self.Q) = 4
    /\ self.Q[ret] = Rat(15, 2)
    /\ \A a \in DOMAIN self.Q \ {ret} : RLt(self.Q[a], self.Q[ret])

\* C8: after every remember() the buffer holds at most max_memory entries.
C8_BufferBounded ==
    (kind = "ExperienceReplay" /\ lastOp = "remember")
    => Len(self.memory) <= self.max_memory

\* C9: get_batch(batch_size) returns the whole buffer when the buffer, as
\* get_batch leaves it, holds fewer entries than batch_size, and batch_size
\* entries from pairwise distinct positions otherwise; every entry returned
\* is an entry of the buffer.
C9_BatchDistinct ==
    (kind = "ExperienceReplay" /\ lastOp = "get_batch")
    => /\ Len(self.memory) < arg => ret = self.memory
       /\ Len(self.memory) >= arg => Len(ret) = arg
       /\ Len(batch_idx) = Len(ret)
       /\ \A i, j \in DOMAIN batch_idx : i # j => batch_idx[i] # batch_idx[j]
       /\ \A i \in DOMAIN ret :
            /\ batch_idx[i] \in 0 .. (Len(self.memory) - 1)
            /\ ret[i] = self.memory[batch_idx[i] + 1]

C9_Witness ==
    /\ kind = "ExperienceReplay" /\ lastOp = "get_batch"
    /\ arg = 2 /\ Len(self.memory) = 3
    /\ self.memory[1] = self.memory[2]
    /\ batch_idx = <<1, 0>>

\* the construction parameters epsilon_0, gamma and epsilon_min
DecayParams(k, p) ==
    IF k = "BanditEpsilonAlgorithm"
    THEN [epsilon |-> p[1], gamma |-> p[2], min_epsilon |-> p[3]]
    ELSE [epsilon |-> p[1], gamma |-> p[2], min_epsilon |-> p[4]]

\* 0 < gamma < 1 and epsilon_0 > epsilon_min
DecayPrecondition(k, p) ==
    LET d == DecayParams(k, p)
    IN  /\ RLt(RInt(0), d.gamma) /\ RLt(d.gamma, RInt(1))
        /\ RLt(d.min_epsilon, d.epsilon)

Decaying == {"BanditEpsilonAlgorithm", "TableauAlgorithm"}

\* C10: with 0 < gamma < 1 and epsilon_0 > epsilon_min, no propose() or
\* feedback() raises epsilon or takes it below epsilon_min; a feedback()
\* that returns leaves (epsilon - epsilon_min) * gamma + epsilon_min, and
\* propose() leaves epsilon as it is.
C10_EpsilonDecay ==
    [][(/\ built /\ kind \in Decaying /\ DecayPrecondition(kind, ctor)
        /\ lastOp' \in {"propose", "feedback"})
       => LET d == DecayParams(kind, ctor)
          IN  /\ RLe(self'.epsilon, self.epsilon)
              /\ RLe(d.min_epsilon, self'.epsilon)
              /\ lastOp' = "propose" => self'.epsilon = self.epsilon
              /\ (lastOp' = "feedback" /\ err' = "none")
                 => /\ RSub(self'.epsilon, d.min_epsilon)
                       = RMul(RSub(self.epsilon, d.min_epsilon), d.gamma)]_vars

C10_Witness ==
    /\ built /\ kind = "TableauAlgorithm" /\ DecayPrecondition(kind, ctor)
    /\ lastOp = "feedback" /\ err = "none" /\ fed = 2
    /\ self.epsilon = Rat(5, 16)


\* the distance of the estimate of the pending action of s from outcome r
Distance(s, r) == RAbs(RSub(s.Q[s.last_action], RInt(r)))

\* the estimate a bandit is constructed with
InitialQ(s) ==
    IF "optimistic" \in DOMAIN s THEN s.optimistic ELSE RInt(0)

\* the tolerances the streak is run up to
Tolerances == {RInt(1), RInt(2)}

C11_StreakStep ==
    lastOp' = "feedback" =>
        RLe(Distance(self', arg'), Distance(self, arg'))

C11_StreakClosedForm ==
    lastOp = "feedback" =>
        LET d0 == RAbs(RSub(InitialQ(self), RInt(arg)))
            d == Distance(self, arg)
        IN  /\ self.N[self.last_action] = fed + 1
            /\ RMul(RInt(fed + 1), d) = d0
            /\ \A t \in Tolerances :
                    RLt(d0, RMul(RInt(fed + 1), t)) => RLt(d, t)

\* C11: under consecutive result calls for one action a with one outcome r,
\* |Q[a] - r| never increases from one call to the next, and after k calls
\* it is the initial distance divided by k + 1, so that it is below a
\* tolerance t as soon as (k + 1) * t exceeds the initial distance
C11_Converges == [][C11_StreakStep]_vars /\ []C11_StreakClosedForm

\* five calls brought an estimate that began 10 away within 2 of the outcome
C11_Witness ==
    /\ lastOp = "feedback"
    /\ fed >= 5
    /\ RAbs(RSub(InitialQ(self), RInt(arg))) = RInt(10)
    /\ RLt(Distance(self, arg), RInt(2))
    /\ RLt(RInt(0), Distance(self, arg))

\* the ids get_action forms for operation name d
FaultIds(d) == {d \o "-" \o fault_types[i] : i \in DOMAIN fault_types}

\* C12: a get_action of QLearningAlgorithm returns d-abort or d-delay for an
\* operation d on an incoming dependency edge of the operation self.state
\* names, and leaves d in self.next_state; on the architecture whose only
\* edge makes op1 an incoming dependency of op2 it returns op1-abort or
\* op1-delay
C12_ProposeDependency ==
    (kind = "QLearningAlgorithm" /\ lastOp = "propose") =>
        /\ err = "none"
        /\ \E d \in get_incoming_dependencies(arch, self.state) :
                ret \in FaultIds(d) /\ self.next_state = d
        /\ (/\ Range(get_operations(arch)) = {"op1", "op2"}
            /\ get_incoming_dependencies(arch, "op2") = {"op1"}
            /\ get_incoming_dependencies(arch, "op1") = {})
           => (self.state = "op2" /\ ret \in FaultIds("op1"))

\* on the two-operation architecture, a get_action after a result call
C12_Witness ==
    /\ kind = "QLearningAlgorithm" /\ lastOp = "propose"
    /\ get_operations(arch) = <<"op1", "op2">>
    /\ get_incoming_dependencies(arch, "op2") = {"op1"}
    /\ get_incoming_dependencies(arch, "op1") = {}
    /\ fed > 0 /\ fedEver
    /\ ret = "op1-delay"

\* the policies that learn from result calls
Trained == Learners \cup {"NeuralNetworkAlgorithm"}

\* what object s has learnt, per entry: Q and N of an action (bandits), of a
\* state and bucket (Tableau), of a state and dependency (QLearning), the
\* feature list of a state (NeuralNetwork)
Learnt(k, s) ==
    CASE k \in Bandits -> [a \in DOMAIN s.Q |-> <<s.Q[a], s.N[a]>>]
      [] k = "TableauAlgorithm" ->
            [e \in {<<st, b>> : st \in DOMAIN s.states,
                                b \in Buckets(s.action_size)} |->
                <<s.states[e[1]].Q[e[2]], s.states[e[1]].N[e[2]]>>]
      [] k = "QLearningAlgorithm" ->
            [e \in UNION {{<<st, d>> : d \in DOMAIN s.states[st].Q} :
                            st \in DOMAIN s.states} |->
                <<s.states[e[1]].Q[e[2]], s.states[e[1]].N[e[2]]>>]
      [] k = "NeuralNetworkAlgorithm" -> s.states

\* value r, returned by get_action, names entry e
Names(k, r, e) ==
    CASE k \in Bandits -> r = e
      [] k = "TableauAlgorithm" -> r = e[1]
      [] k = "QLearningAlgorithm" -> r \in FaultIds(e[2])
      [] k = "NeuralNetworkAlgorithm" -> r = e

\* a get_action that follows a get_action directly does not raise (but for
\* the all-zero weights that make any get_action of NeuralNetwork raise)
C13_SecondSucceeds ==
    (/\ built /\ kind \in Trained
     /\ lastOp = "propose" /\ err = "none" /\ ret # "None"
     /\ log.run # "none" /\ lastOp' = "propose")
    => \/ err' = "none" /\ Names(kind, ret', Pending(kind, self'))
       \/ kind = "NeuralNetworkAlgorithm" /\ self' = self

\* the result call that follows two get_action calls is attributed to the
\* entry the second one left pending: no other entry changes
C13_AttributedToSecond ==
    (/\ built /\ kind \in Trained
     /\ lastOp = "propose" /\ err = "none" /\ ret # "None"
     /\ log.run \in {"same", "different"}
     /\ lastOp' = "feedback")
    => /\ err' = "none"
       /\ Names(kind, ret, Pending(kind, self))
       /\ DOMAIN Learnt(kind, self') = DOMAIN Learnt(kind, self)
       /\ \A e \in DOMAIN Learnt(kind, self) \ {Pending(kind, self)} :
            Learnt(kind, self')[e] = Learnt(kind, self)[e]
       /\ log'.attributed # log.attributed \/ log'.outs # log.outs
       /\ kind \in Learners =>
            Learnt(kind, self')[Pending(kind, self)][2]
                = Learnt(kind, self)[Pending(kind, self)][2] + 1
       /\ kind = "NeuralNetworkAlgorithm" =>
            LET m == self'.experience.memory
            IN  m[Len(m)].ref = Pending(kind, self)

\* C13: get_action called twice with no result call between: the second
\* call succeeds, the next result call is attributed to what the second
\* call returned, and what the first call returned is updated only when
\* both returned the same
C13_SecondProposalWins ==
    [][C13_SecondSucceeds /\ C13_AttributedToSecond]_vars

\* a result call after two get_action calls that returned different
\* actions, for each kind of policy
C13_Witness ==
    /\ lastOp = "feedback" /\ err = "none" /\ log.followed = "different"
    /\ kind = "BanditEpsilonAlgorithm"
    /\ arg = 10
    /\ Cardinality({a \in DOMAIN self.Q : self.N[a] = 2}) = 1
    /\ self.N[self.last_action] = 2

\* the attributes that record what get_action offered last
OfferRecord == {"last_action", "last_state", "next_state"}

\* C14: for every policy, get_action changes no attribute of the object
\* other than last_action, last_state and next_state: Q, N, epsilon, the
\* current state of QLearning, the feature lists, iteration_counter,
\* model_fit, the classifier and the replay buffer stay as they were,
\* whether the call returns or raises
C14_ProposeFrame ==
    [][lastOp' = "propose" =>
        /\ DOMAIN self \subseteq DOMAIN self'
        /\ DOMAIN self' \subseteq DOMAIN self \cup OfferRecord
        /\ \A k \in DOMAIN self \ OfferRecord : self'[k] = self[k]]_vars

\* a get_action on a NeuralNetwork that has learnt from one result call,
\* changing the state offered
C14_Witness ==
    /\ kind = "NeuralNetworkAlgorithm"
    /\ lastOp = "propose" /\ err = "none"
    /\ self.iteration_counter = 1 /\ self.model_fit
    /\ Len(self.experience.memory) = 1
    /\ self.experience.memory[1].ref # self.last_state

\* the visit count an entry is constructed with
InitialN(k) == IF k = "QLearningAlgorithm" THEN 0 ELSE 1

\* the result calls that returned normally for entry e since construction or
\* the latest reset
Attributed(e) == IF e \in DOMAIN log.attributed THEN log.attributed[e] ELSE 0

\* the entries of the N tables of object s
VisitKeys(k, s) ==
    CASE k \in Bandits -> DOMAIN s.N
      [] k = "TableauAlgorithm" ->
            {<<st, b>> : st \in DOMAIN s.states, b \in Buckets(s.action_size)}
      [] k = "QLearningAlgorithm" ->
            UNION {{<<st, d>> : d \in DOMAIN s.states[st].N} :
                        st \in DOMAIN s.states}

\* the visit count of entry e of object s
Visits(k, s, e) == IF k \in Bandits THEN s.N[e] ELSE s.states[e[1]].N[e[2]]

C15_CountsMatch ==
    (built /\ kind \in Learners) =>
        LET keys == VisitKeys(kind, self)
        IN  /\ DOMAIN log.attributed \subseteq keys
            /\ \A e \in keys :
                Visits(kind, self, e) = InitialN(kind) + Attributed(e)

\* a step other than a reset lowers no N entry; a result call that returns
\* raises one entry by one, any other call leaves every entry as it was
C15_CountsStep ==
    (built /\ kind \in Learners /\ lastOp' # "reset") =>
        LET keys == VisitKeys(kind, self)
            raised == {e \in keys :
                        Visits(kind, self', e) # Visits(kind, self, e)}
        IN  /\ VisitKeys(kind, self') = keys
            /\ \A e \in keys : Visits(kind, self', e) >= Visits(kind, self, e)
            /\ IF lastOp' = "feedback" /\ err' = "none"
               THEN \E e \in keys :
                        /\ raised = {e}
                        /\ Visits(kind, self', e) = Visits(kind, self, e) + 1
               ELSE raised = {}

\* C15: for the bandits, Tableau and QLearning, every N entry is its initial
\* value (1, or 0 for QLearning) plus the number of result calls attributed
\* to the entry since construction or the latest reset; no N entry
\* decreases, and a result call that returns raises the sum of N by one
C15_VisitCounts == [][C15_CountsStep]_vars /\ []C15_CountsMatch

\* QLearning after two result calls for one entry
C15_Witness ==
    /\ kind = "QLearningAlgorithm" /\ lastOp = "feedback" /\ err = "none"
    /\ \E e \in VisitKeys(kind, self) :
        /\ Visits(kind, self, e) = 2 /\ Attributed(e) = 2

C16_StateIsKey ==
    (built /\ kind = "QLearningAlgorithm") => self.state \in DOMAIN self.states

C16_FeedbackMoves ==
    (/\ built /\ kind = "QLearningAlgorithm"
     /\ lastOp = "propose" /\ lastOp' = "feedback")
    => LET old == Learnt(kind, self)
           new == Learnt(kind, self')
           e == <<self.state, self.next_state>>
       IN  /\ err' = "none"
           /\ self'.state \in DOMAIN self.states
           /\ self.next_state \in DOMAIN self.states
                => self'.state = self.next_state
           /\ DOMAIN new = DOMAIN old
           /\ \A x \in DOMAIN old \ {e} : new[x] = old[x]
           /\ new[e][2] = old[e][2] + 1
           /\ \A k \in DOMAIN self \ {"states", "state"} : self'[k] = self[k]

\* C16: the current state of QLearning is a key of its state set in every
\* reachable state; a result call that follows a get_action moves to the
\* remembered next state when that is a key of the state set and to some
\* key otherwise, and changes no more than Q[old state][remembered next
\* state] and the N beside it
C16_CurrentState == [][C16_FeedbackMoves]_vars /\ []C16_StateIsKey

\* a result call moved from one state to the other, the remembered one
C16_Witness ==
    /\ kind = "QLearningAlgorithm" /\ lastOp = "feedback" /\ err = "none"
    /\ DOMAIN self.states = {"op1", "op2"}
    /\ self.state = self.next_state
    /\ arg = 10
    /\ \E st \in DOMAIN self.states :
        st # self.state /\ self.states[st].N[self.state] = 1
                        /\ self.states[st].Q[self.state] = RInt(5)

\* the maximal buckets of state st of object s
BestBuckets(s, st) ==
    {i \in Buckets(s.action_size) :
        \A j \in Buckets(s.action_size) :
            RLe(s.states[st].Q[j], s.states[st].Q[i])}

\* every state of s has one maximal bucket
UniqueBest(s) ==
    \A st \in DOMAIN s.states : Cardinality(BestBuckets(s, st)) = 1

\* C17: on the greedy branch of Tableau's get_action, the returned state s
\* and the remembered bucket b are such that Q[s][b] is maximal in Q[s] and
\* no state was queued, by its own choice of a maximal bucket, below b; when
\* every state has a unique maximal bucket, b is the least of these buckets
\* over all states and s is a state whose maximal bucket it is
C17_GreedyBucket ==
    (built /\ kind = "TableauAlgorithm" /\ DOMAIN self.states # {}) =>
        /\ TableauGreedy(self) # {}
        /\ \A pick \in TableauGreedy(self) :
            LET s == pick[1]
                b == pick[2]
            IN  /\ s \in DOMAIN self.states
                /\ b \in BestBuckets(self, s)
                /\ \A st \in DOMAIN self.states :
                        \E i \in BestBuckets(self, st) : i >= b
                /\ UniqueBest(self) =>
                        /\ \A st \in DOMAIN self.states :
                              \A i \in BestBuckets(self, st) : b <= i
                        /\ BestBuckets(self, s) = {b}

\* get_action returned the one state whose only maximal bucket is the lower
\* one, where every state has a single maximal bucket
C17_Witness ==
    /\ kind = "TableauAlgorithm" /\ lastOp = "propose" /\ err = "none"
    /\ RLt(self.epsilon, RInt(1))
    /\ UniqueBest(self)
    /\ Cardinality(DOMAIN self.states) = 2
    /\ <<self.last_state, self.last_action>> \in TableauGreedy(self)
    /\ self.last_action = 0
    /\ \E st \in DOMAIN self.states : BestBuckets(self, st) = {1}

\* the outcomes of the result calls attributed to state st since
\* construction or the latest reset, oldest first
OutcomesOf(st) == IF st \in DOMAIN log.outs THEN log.outs[st] ELSE <<>>

\* the positions of a feature list that hold the lagged outcomes
LagSlots == {3, 4, 5, 6}

\* C18: with training enabled, after k result calls attributed to state s
\* (since construction or the latest reset) the lag slots 3..6 of the
\* feature list of s hold the min(k, 4) latest outcomes for s, newest first,
\* then the initial values that survive; the other positions of s, and the
\* lists of the states no call was attributed to, are as constructed
C18_LagSlots ==
    (built /\ kind = "NeuralNetworkAlgorithm" /\ self.train_mode) =>
        /\ DOMAIN log.outs \subseteq DOMAIN self.states
        /\ \A st \in DOMAIN self.states :
            LET outs == OutcomesOf(st)
                k == Len(outs)
                now == self.states[st]
                was == log.init[st]
            IN  /\ DOMAIN now = DOMAIN was
                /\ \A p \in DOMAIN now \ LagSlots : now[p] = was[p]
                /\ \A p \in LagSlots :
                      now[p] = IF p - 3 < k THEN outs[k - (p - 3)]
                               ELSE was[p - k]

\* a state that five result calls were attributed to, the oldest outcome
\* gone, while the other state keeps the list it was constructed with
C18_Witness ==
    /\ kind = "NeuralNetworkAlgorithm" /\ lastOp = "feedback" /\ err = "none"
    /\ \E st \in DOMAIN self.states :
        /\ OutcomesOf(st) = <<10, 0, 0, 10, 10>>
        /\ \E other \in DOMAIN self.states \ {st} :
              /\ OutcomesOf(other) = <<>>
              /\ self.states[other][3] = 1 /\ self.states[other][4] = 0

\* C19 (the part about the fit flag): with training enabled, once a result
\* call has been made and returned since construction or the latest reset,
\* the first of them has retrained the classifier, so model_fit is set, and
\* it stays set until reset
C19_FitAfterFirstFeedback ==
    (/\ built /\ kind = "NeuralNetworkAlgorithm" /\ self.train_mode
     /\ log.outs # <<>>)
    => self.model_fit

\* the feature list an experience holds: the tuple refers to the list of
\* the state, so it reads what that list holds now
EntryFeatures(s, experience) == s.states[experience.ref]

\* C20: every experience in the buffer pairs its outcome with the feature
\* list its state had when the result call that stored it was received,
\* before that call shifted the lag slots, and no later call changes it
C20_EntryKeepsFeatures ==
    (built /\ kind = "NeuralNetworkAlgorithm") =>
        LET m == self.experience.memory
        IN  /\ Len(m) = Len(log.snapshots)
            /\ \A i \in DOMAIN m :
                    EntryFeatures(self, m[i]) = log.snapshots[i]

=========================================================================
